---- MODULE Spec2Model ----
(***************************************************************************)
(* RCStream (src/rcstream/rcstream.py): a socket.io server that relays     *)
(* MediaWiki recent changes, read from a Redis pub/sub feed, to the        *)
(* clients subscribed to the originating wiki.                             *)
(*                                                                         *)
(* Three kinds of greenlet share the process: the `subscribe` greenlet     *)
(* (reads the feed, decodes, puts on the channel), the `publish` greenlet  *)
(* (takes from the channel, fans out to the sockets) and one handler per   *)
(* client packet (on_subscribe / on_unsubscribe).  gevent greenlets are    *)
(* cooperative: a greenlet runs until it blocks, so every action below is  *)
(* the code between two blocking points.                                   *)
(***************************************************************************)
EXTENDS Integers, Sequences, FiniteSets, TLC

\* ---------------------------------------------------------------- bounds
NumSessions == 2
MaxUpstream == 2
CapUpstream == 1

\* ------------------------------------------------------ program constants
MAX_SUBSCRIPTIONS == 100

SessionIds == 1..NumSessions
Running == <<>>

VARIABLES
    sockets,        \* self.sockets: ids of the sockets in the server's registry
    inited,         \* sockets whose session has the 'wikis' key (initialize ran)
    wikis,          \* session['wikis'] of each socket
    environ,        \* the WSGI environ of each socket's request
    trail,          \* history: what the process_packet call of the latest
                    \* step did, in execution order
    emitted,        \* history: the sockets the latest step sent a
                    \* subscribe_error packet, one entry per packet
    outbox,         \* change packets handed to each socket's send_packet, in order
    broken,         \* sockets whose send_packet raises
    pass,           \* the publish pass in progress, when send_packet yields:
                    \* the change, the sockets listed, the sockets reached
    putters,        \* self.queue: items whose put() is blocked on the channel
    pubPc,          \* the publish greenlet
    subPc,          \* the subscribe greenlet
    upstream,       \* number of pmessages listen() has yielded
    skipped,        \* history: the latest step was a pass of the listen loop
                    \* over a message that is not a pmessage
    handed,         \* history: items passed to self.queue.put, in order
    taken,          \* history: items the publish loop took from the channel
    fanout,         \* history: the sockets the publish pass of the latest step
                    \* tested and found interested
    notify,         \* greenlets that died with an exception, on_error pending
    errorLog,       \* greenlets whose exception on_error has logged
    exitStatus      \* <<>> while running, then the status passed to sys.exit

vars == <<sockets, inited, wikis, environ, trail, emitted, outbox, broken, pass, putters, pubPc,
          subPc, upstream, skipped, handed, taken, fanout, notify, errorLog, exitStatus>>

clientVars == <<sockets, inited, wikis, environ>>
loopVars == <<putters, pubPc, subPc, upstream, handed, taken>>
exitVars == <<notify, errorLog, exitStatus>>

\* ------------------------------------------------- values on the wire
\* A JSON value of a client packet: a string, a number, or a list of them.
Str(s) == [t |-> "str", v |-> s]
Num(s) == [t |-> "num", v |-> s]
List(q) == [t |-> "list", v |-> q]

IsList(x) == x.t = "list"
IsString(x) == x.t = "str"

\* if not isinstance(wikis, list): wikis = [wikis]
Normalize(arg) == IF IsList(arg) THEN arg.v ELSE <<arg>>

\* ------------------------------------------------------- on_subscribe
\* The body of `for wiki in wikis`, applied to the loop's state: the
\* subscription set, the subscribe_error packets sent, and whether the
\* handler has returned.
\* Mutant: the cap is tested with > instead of >=.
SubscribeStep_OffByOne(st, wiki) ==
    IF st.returned THEN st
    ELSE IF ~IsString(wiki) THEN st
    ELSE IF wiki.v \in st.subs THEN st
    ELSE IF Cardinality(st.subs) > MAX_SUBSCRIPTIONS
         THEN [st EXCEPT !.errors = @ + 1, !.returned = TRUE]
    ELSE [st EXCEPT !.subs = @ \cup {wiki.v}]

\* Mutant: the handler returns after the first topic it adds.
SubscribeStep_ReturnAfterAdd(st, wiki) ==
    IF st.returned THEN st
    ELSE IF ~IsString(wiki) THEN st
    ELSE IF wiki.v \in st.subs THEN st
    ELSE IF Cardinality(st.subs) >= MAX_SUBSCRIPTIONS
         THEN [st EXCEPT !.errors = @ + 1, !.returned = TRUE]
    ELSE [st EXCEPT !.subs = @ \cup {wiki.v}, !.returned = TRUE]

\* Mutant: the cap is tested before the topic is looked up in the set.
SubscribeStep_CapFirst(st, wiki) ==
    IF st.returned THEN st
    ELSE IF ~IsString(wiki) THEN st
    ELSE IF Cardinality(st.subs) >= MAX_SUBSCRIPTIONS
         THEN [st EXCEPT !.errors = @ + 1, !.returned = TRUE]
    ELSE IF wiki.v \in st.subs THEN st
    ELSE [st EXCEPT !.subs = @ \cup {wiki.v}]

SubscribeStep(st, wiki) ==
    IF st.returned THEN st
    ELSE IF ~IsString(wiki) THEN st
    ELSE IF wiki.v \in st.subs THEN st
    ELSE IF Cardinality(st.subs) >= MAX_SUBSCRIPTIONS
         THEN [st EXCEPT !.errors = @ + 1, !.returned = TRUE]
    ELSE [st EXCEPT !.subs = @ \cup {wiki.v}]

\* The loop over list[lo..hi], in list order (evaluated by halves to keep
\* the evaluation shallow); once the handler has returned the rest is skipped.
RECURSIVE SubscribeLoop(_, _, _, _)
SubscribeLoop(list, lo, hi, st) ==
    IF lo > hi THEN st
    ELSE IF lo = hi THEN SubscribeStep(st, list[lo])
    ELSE LET mid == (lo + hi) \div 2
             left == SubscribeLoop(list, lo, mid, st)
         IN  IF left.returned THEN left ELSE SubscribeLoop(list, mid + 1, hi, left)

\* Mutant: a batch that overflows is rolled back (all or nothing).
Subscribe_AllOrNothing(subscriptions, arg) ==
    LET list == Normalize(arg)
        r == SubscribeLoop(list, 1, Len(list),
                           [subs |-> subscriptions, errors |-> 0, returned |-> FALSE])
    IN  IF r.errors > 0 THEN [r EXCEPT !.subs = subscriptions] ELSE r

Subscribe(subscriptions, arg) ==
    LET list == Normalize(arg) IN
    SubscribeLoop(list, 1, Len(list),
                  [subs |-> subscriptions, errors |-> 0, returned |-> FALSE])

\* ----------------------------------------------------- on_unsubscribe
UnsubscribeStep(subscriptions, wiki) ==
    IF ~IsString(wiki) THEN subscriptions
    ELSE subscriptions \ {wiki.v}

\* The loop over list[lo..hi], in list order; discarding from an empty set
\* leaves it empty.
RECURSIVE UnsubscribeLoop(_, _, _, _)
UnsubscribeLoop(list, lo, hi, subscriptions) ==
    IF lo > hi THEN subscriptions
    ELSE IF lo = hi THEN UnsubscribeStep(subscriptions, list[lo])
    ELSE LET mid == (lo + hi) \div 2
             left == UnsubscribeLoop(list, lo, mid, subscriptions)
         IN  IF left = {} THEN left ELSE UnsubscribeLoop(list, mid + 1, hi, left)

\* Mutant: a bare topic is not wrapped in a list and is ignored.
Unsubscribe_ListOnly(subscriptions, arg) ==
    IF IsList(arg) THEN UnsubscribeLoop(arg.v, 1, Len(arg.v), subscriptions)
    ELSE subscriptions

Unsubscribe(subscriptions, arg) ==
    LET list == Normalize(arg) IN UnsubscribeLoop(list, 1, Len(list), subscriptions)

\* ------------------------------------------------------- json.loads
\* A payload is a sequence of JSON tokens.  json.loads accepts one scalar, or
\* an object "{" key ":" value ("," key ":" value)* "}"; a later duplicate key
\* overrides an earlier one.  Anything else raises ValueError (ok = FALSE).
Punctuation == {"{", "}", ":", ","}

RECURSIVE ParseMembers(_, _)
ParseMembers(toks, acc) ==
    IF Len(toks) < 4 THEN [ok |-> FALSE, value |-> acc]
    ELSE IF \/ toks[1] \in Punctuation
            \/ toks[2] # ":"
            \/ toks[3] \in Punctuation THEN [ok |-> FALSE, value |-> acc]
    ELSE LET next == (toks[1] :> toks[3]) @@ acc IN
         IF toks[4] = "}" THEN [ok |-> Len(toks) = 4, value |-> next]
         ELSE IF toks[4] = "," THEN ParseMembers(SubSeq(toks, 5, Len(toks)), next)
         ELSE [ok |-> FALSE, value |-> acc]

json_loads(toks) ==
    IF toks = <<>> THEN [ok |-> FALSE, value |-> <<>>]
    ELSE IF toks[1] = "{"
         THEN IF Len(toks) = 2 /\ toks[2] = "}"
              THEN [ok |-> TRUE, value |-> [t |-> "dict", v |-> <<>>]]
              ELSE LET r == ParseMembers(Tail(toks), <<>>) IN
                   [ok |-> r.ok, value |-> [t |-> "dict", v |-> r.value]]
    ELSE IF Len(toks) = 1 /\ toks[1] \notin Punctuation
         THEN [ok |-> TRUE, value |-> Str(toks[1])]
    ELSE [ok |-> FALSE, value |-> <<>>]

\* change['server_name'] raises KeyError (TypeError on a non-dict) unless:
HasKey(change, key) == change.t = "dict" /\ key \in DOMAIN change.v

\* ------------------------------------- WsgiBackendLogAdapter.process
\* A header value is a sequence of tokens, "," being the comma.
\* str.split(','): the pieces between the commas; '' gives [''].
RECURSIVE Split(_, _, _)
Split(toks, piece, acc) ==
    IF toks = <<>> THEN Append(acc, piece)
    ELSE IF Head(toks) = "," THEN Split(Tail(toks), <<>>, Append(acc, piece))
    ELSE Split(Tail(toks), Append(piece, Head(toks)), acc)

split(str) == Split(str, <<>>, <<>>)

\* dict.get(key, default)
Get(dict, key, default) == IF key \in DOMAIN dict THEN dict[key] ELSE default

\* xff = self.extra.get('HTTP_X_FORWARDED_FOR', '').split(',')
\* client_ip = xff[0] if xff else self.extra['REMOTE_ADDRESS']
\* The line is '[client_ip] msg'; a missing REMOTE_ADDRESS raises KeyError
\* (ok = FALSE).
process(extra, msg) ==
    LET xff == split(Get(extra, "HTTP_X_FORWARDED_FOR", <<>>)) IN
    IF xff # <<>>
    THEN [ok |-> TRUE, client_ip |-> xff[1], msg |-> msg]
    ELSE IF "REMOTE_ADDRESS" \in DOMAIN extra
         THEN [ok |-> TRUE, client_ip |-> extra["REMOTE_ADDRESS"], msg |-> msg]
         ELSE [ok |-> FALSE, client_ip |-> <<>>, msg |-> msg]

\* json.dumps(packet, sort_keys=True): the members in key order.
json_dumps(packet) ==
    <<"{", "args", ":", packet.args, ",", "name", ":", packet.name, "}">>

\* ------------------------------------------------ the publish fan-out
\* Mutant: a session without 'wikis' counts as subscribed to everything.
Subscriptions_DefaultAll(client) == IF client \in inited THEN wikis[client] ELSE {"*"}

\* client.session.get('wikis', ())
Subscriptions(client) == IF client \in inited THEN wikis[client] ELSE {}

\* Mutant: the wildcard is not tested.
Interested_NoWildcard(subscriptions, wiki) == wiki \in subscriptions

\* if '*' in subscriptions or wiki in subscriptions
Interested(subscriptions, wiki) == "*" \in subscriptions \/ wiki \in subscriptions

\* event = dict(base_event, args=(change,))
Event(change) == [type |-> "event", name |-> "change", endpoint |-> "/rc",
                  args |-> <<change.v>>]

\* for client in self.sockets.values(): ... client.send_packet(event)
\* `clients` is the list self.sockets.values() returned.  A send_packet that
\* raises ends the loop (and the greenlet): nothing in publish catches it.
\* Mutant: a packet is sent ahead of the packets already sent to the socket.
RECURSIVE FanOut_SendFirst(_, _, _, _)
FanOut_SendFirst(clients, change, out, seen) ==
    IF clients = <<>> THEN [out |-> out, raised |-> FALSE, seen |-> seen]
    ELSE LET client == Head(clients)
             here == [tested |-> seen.tested \cup {client}, matched |-> seen.matched]
             hit == [here EXCEPT !.matched = @ \cup {client}]
         IN
         IF Interested(Subscriptions(client), change.v["server_name"])
         THEN IF client \in broken
              THEN [out |-> out, raised |-> TRUE, seen |-> hit]
              ELSE FanOut_SendFirst(Tail(clients), change,
                                    [out EXCEPT ![client] = <<Event(change)>> \o @], hit)
         ELSE FanOut_SendFirst(Tail(clients), change, out, here)

RECURSIVE FanOut(_, _, _, _)
FanOut(clients, change, out, seen) ==
    IF clients = <<>> THEN [out |-> out, raised |-> FALSE, seen |-> seen]
    ELSE LET client == Head(clients)
             here == [tested |-> seen.tested \cup {client}, matched |-> seen.matched]
             hit == [here EXCEPT !.matched = @ \cup {client}]
         IN
         IF Interested(Subscriptions(client), change.v["server_name"])
         THEN IF client \in broken
              THEN [out |-> out, raised |-> TRUE, seen |-> hit]
              ELSE FanOut(Tail(clients), change,
                          [out EXCEPT ![client] = Append(@, Event(change))], hit)
         ELSE FanOut(Tail(clients), change, out, here)

\* Mutant: the loop walks the live registry, not the list values() returned.
Pending_LiveRegistry(p) == sockets \ p.tested

\* for client in self.sockets.values(): values() returns a new list, and the
\* loop walks that list; these are the sockets it has yet to reach.
Pending(p) == p.snapshot \ p.tested

\* The orders in which a dict of the given keys may list its values.
Orders(S) == {q \in [1..Cardinality(S) -> S] : \A i, j \in DOMAIN q : i # j => q[i] # q[j]}

\* ----------------------------------------------------------- inputs
\* Topic lists w1, ..., wn used to fill a subscription set.
FillTopics(n) == [i \in 1..n |-> Str("w" \o ToString(i))]

\* Arguments of client commands (a tuple: the values differ in kind): a bare string, a list with a non-string
\* element.
Args == <<Str("*"), List(<<Num("7"), Str("enwiki")>>)>>

\* Arguments that drive a session to the subscription cap: a list of 99
\* topics, and lists that then overflow.
CapArgs == <<List(FillTopics(MAX_SUBSCRIPTIONS - 1)), List(<<Str("a"), Str("b")>>),
             List(<<Num("7"), Str("a"), Str("b")>>)>>

\* Arguments of every kind: a list of 99 topics, a bare string, a list with a
\* non-string element.
HandlerArgs == <<List(FillTopics(MAX_SUBSCRIPTIONS - 1)), Str("a"),
                 List(<<Num("7"), Str("a"), Str("b")>>)>>

\* The environ of a request: through the proxy with one address or a chain
\* of addresses in X-Forwarded-For, or direct, with no such header.
NoEnviron == [key \in {} |-> <<>>]
ProxiedEnviron ==
    [key \in {"HTTP_X_FORWARDED_FOR", "REMOTE_ADDR"} |->
        IF key = "REMOTE_ADDR" THEN <<"10.0.0.1">> ELSE <<"1.1.1.1">>]
ChainedEnviron ==
    [key \in {"HTTP_X_FORWARDED_FOR", "REMOTE_ADDR"} |->
        IF key = "REMOTE_ADDR" THEN <<"10.0.0.1">> ELSE <<"1.1.1.1", ",", " 10.64.0.2">>]
DirectEnviron == [key \in {"REMOTE_ADDR", "REMOTE_ADDRESS"} |-> <<"2.2.2.2">>]
Environs == {ProxiedEnviron, ChainedEnviron, DirectEnviron}

\* Names of client packets: the two commands, and an event with no handler.
PacketNames == {"subscribe", "unsubscribe", "ping"}

\* Payloads published upstream: a change of a wiki, an object without
\* server_name, a truncated object.
ChangePayload(wiki, n) ==
    <<"{", "server_name", ":", wiki, ",", "id", ":", ToString(n), "}">>
NoTopicPayload == <<"{", "title", ":", "Main_Page", "}">>
BadPayload == <<"{", "server_name", ":">>

\* What pubsub.listen() may yield when n - 1 pmessages have come: the n-th
\* pmessage, or the reply to psubscribe.
UpstreamMessages(n) ==
    {[type |-> "pmessage", data |-> d] :
        d \in {ChangePayload("enwiki", n), ChangePayload("frwiki", n),
               NoTopicPayload, BadPayload}}
    \cup {[type |-> "psubscribe", data |-> <<"1">>]}

NoTrail == [sid |-> 0, line |-> [ok |-> FALSE, client_ip |-> <<>>, msg |-> <<>>],
            steps |-> <<>>]
NoPass == [change |-> [t |-> "none", v |-> <<>>], snapshot |-> {}, tested |-> {}]
NoFanOut == [tested |-> {}, matched |-> {}, raised |-> FALSE]

\* A step that emits no subscribe_error and makes no publish pass.
Quiet == emitted' = <<>> /\ fanout' = NoFanOut /\ trail' = NoTrail /\ skipped' = FALSE

\* --------------------------------------------------------------- Init
Init ==
    /\ sockets = {}
    /\ inited = {}
    /\ wikis = [s \in SessionIds |-> {}]
    /\ environ = [s \in SessionIds |-> NoEnviron]
    /\ trail = NoTrail
    /\ emitted = <<>>
    /\ outbox = [s \in SessionIds |-> <<>>]
    /\ broken = {}
    /\ pass = NoPass
    /\ putters = <<>>
    /\ pubPc = "new"
    /\ subPc = "new"
    /\ upstream = 0
    /\ skipped = FALSE
    /\ handed = <<>>
    /\ taken = <<>>
    /\ fanout = NoFanOut
    /\ notify = {}
    /\ errorLog = {}
    /\ exitStatus = Running

\* ------------------------------------------------------ serve_forever
\* Both greenlets are created, linked to on_error and started; the server
\* then accepts connections.
ServeForever ==
    /\ exitStatus = Running
    /\ Quiet
    /\ pubPc = "new" /\ subPc = "new"
    /\ pubPc' = "started" /\ subPc' = "started"
    /\ UNCHANGED <<clientVars, outbox, broken, pass, putters, upstream, handed, taken, exitVars>>

\* publish() runs up to its first self.queue.get()
PublishStart ==
    /\ exitStatus = Running
    /\ Quiet
    /\ pubPc = "started"
    /\ pubPc' = "get"
    /\ UNCHANGED <<clientVars, outbox, broken, pass, putters, subPc, upstream, handed, taken, exitVars>>

\* subscribe() runs psubscribe('rc.*') and blocks in pubsub.listen(); the
\* greenlets first run in the order in which serve_forever started them.
SubscribeStart ==
    /\ exitStatus = Running
    /\ Quiet
    /\ subPc = "started"
    /\ pubPc # "started"
    /\ subPc' = "listen"
    /\ UNCHANGED <<clientVars, outbox, broken, pass, putters, pubPc, upstream, handed, taken, exitVars>>

\* ----------------------------------------------------- client lifecycle
\* The transport adds a socket to self.sockets; its session is still empty.
\* The server accepts connections once serve_forever has yielded to the hub,
\* which first runs both greenlets up to the point where they block.
Accept(s, env) ==
    /\ exitStatus = Running
    /\ Quiet
    /\ pubPc \notin {"new", "started"}
    /\ subPc \notin {"new", "started"}
    /\ s \notin sockets
    /\ s \notin Pending(pass)
    /\ sockets' = sockets \cup {s}
    /\ environ' = [environ EXCEPT ![s] = env]
    /\ UNCHANGED <<inited, wikis, outbox, broken, pass, loopVars, exitVars>>

\* A connection that comes through the proxy.
Connect(s) == Accept(s, ProxiedEnviron)

\* A connection with any of the environs.
ConnectAny(s) == \E env \in Environs : Accept(s, env)

\* WikiNamespace.initialize
Initialize(s) ==
    /\ exitStatus = Running
    /\ Quiet
    /\ s \in sockets \ inited
    /\ inited' = inited \cup {s}
    /\ wikis' = [wikis EXCEPT ![s] = {}]
    /\ UNCHANGED <<sockets, environ, outbox, broken, pass, loopVars, exitVars>>

\* The transport drops a closed socket, and its session, from self.sockets.
Disconnect(s) ==
    /\ exitStatus = Running
    /\ Quiet
    /\ s \in sockets
    /\ sockets' = sockets \ {s}
    /\ inited' = inited \ {s}
    /\ broken' = broken \ {s}
    /\ wikis' = [wikis EXCEPT ![s] = {}]
    /\ environ' = [environ EXCEPT ![s] = NoEnviron]
    /\ outbox' = [outbox EXCEPT ![s] = <<>>]
    /\ UNCHANGED <<pass, loopVars, exitVars>>

\* A socket's transport starts failing: send_packet on it raises.
TransportBreak(s) ==
    /\ exitStatus = Running
    /\ Quiet
    /\ s \in sockets \ broken
    /\ broken' = broken \cup {s}
    /\ UNCHANGED <<clientVars, outbox, pass, loopVars, exitVars>>

\* ------------------------------------------------------ client commands
\* Mutant: the set is one object shared by the live sessions.
on_subscribe_SharedSet(s, arg) ==
    /\ exitStatus = Running
    /\ fanout' = NoFanOut /\ trail' = NoTrail /\ skipped' = FALSE
    /\ s \in inited
    /\ UNCHANGED <<sockets, inited, environ, outbox, broken, pass, loopVars, exitVars>>
    /\ LET r == Subscribe(wikis[s], arg) IN
       /\ wikis' = [t \in SessionIds |-> IF t \in inited THEN r.subs ELSE wikis[t]]
       /\ emitted' = [k \in 1..r.errors |-> s]

\* The handlers, as process_packet calls them; the audit line, written before
\* the call, is kept by process_packet below.
on_subscribe(s, arg) ==
    /\ exitStatus = Running
    /\ fanout' = NoFanOut /\ trail' = NoTrail /\ skipped' = FALSE
    /\ s \in inited
    /\ UNCHANGED <<sockets, inited, environ, outbox, broken, pass, loopVars, exitVars>>
    /\ LET r == Subscribe(wikis[s], arg) IN
       /\ wikis' = [wikis EXCEPT ![s] = r.subs]
       /\ emitted' = [k \in 1..r.errors |-> s]

on_unsubscribe(s, arg) ==
    /\ exitStatus = Running
    /\ fanout' = NoFanOut /\ trail' = NoTrail /\ skipped' = FALSE
    /\ s \in inited
    /\ UNCHANGED <<sockets, inited, environ, outbox, broken, pass, loopVars, exitVars>>
    /\ wikis' = [wikis EXCEPT ![s] = Unsubscribe(@, arg)]
    /\ emitted' = <<>>

\* super().process_packet(packet): the handler named by the packet runs on
\* its argument; an event without a handler changes no session.
Handle(subscriptions, packet) ==
    IF packet.name = "subscribe" THEN Subscribe(subscriptions, packet.args)
    ELSE IF packet.name = "unsubscribe"
         THEN [subs |-> Unsubscribe(subscriptions, packet.args), errors |-> 0]
    ELSE [subs |-> subscriptions, errors |-> 0]

\* What a handler run did, in order: the set was written, an error emitted.
Effects(subscriptions, r) ==
    (IF r.subs # subscriptions THEN <<"write">> ELSE <<>>)
    \o [k \in 1..r.errors |-> "emit"]

\* Mutant: the packet is handled first and logged afterwards.
process_packet_LogLast(s, packet) ==
    /\ exitStatus = Running
    /\ fanout' = NoFanOut /\ skipped' = FALSE
    /\ s \in inited
    /\ UNCHANGED <<sockets, inited, environ, outbox, broken, pass, loopVars, exitVars>>
    /\ LET line == process(environ[s], json_dumps(packet))
           r == Handle(wikis[s], packet)
       IN  /\ wikis' = [wikis EXCEPT ![s] = r.subs]
           /\ emitted' = [k \in 1..r.errors |-> s]
           /\ trail' = [sid |-> s, line |-> line,
                        steps |-> Effects(wikis[s], r) \o (IF line.ok THEN <<"log">> ELSE <<>>)]

\* WikiNamespace.process_packet: the packet is logged through the adapter,
\* then handled.  If the adapter raises, nothing is logged or handled.
process_packet(s, packet) ==
    /\ exitStatus = Running
    /\ fanout' = NoFanOut /\ skipped' = FALSE
    /\ s \in inited
    /\ UNCHANGED <<sockets, inited, environ, outbox, broken, pass, loopVars, exitVars>>
    /\ LET line == process(environ[s], json_dumps(packet))
           r == Handle(wikis[s], packet)
       IN  IF line.ok
           THEN /\ wikis' = [wikis EXCEPT ![s] = r.subs]
                /\ emitted' = [k \in 1..r.errors |-> s]
                /\ trail' = [sid |-> s, line |-> line,
                             steps |-> <<"log">> \o Effects(wikis[s], r)]
           ELSE /\ trail' = [sid |-> s, line |-> line, steps |-> <<>>]
                /\ UNCHANGED <<wikis, emitted>>

\* ---------------------------------------------------- subscribe greenlet
\* Mutant: self.queue is a gevent.queue.Queue: put() returns at once.
Listen_QueuePut(message) ==
    /\ exitStatus = Running
    /\ emitted' = <<>> /\ fanout' = NoFanOut /\ trail' = NoTrail
    /\ skipped' = (message.type # "pmessage")
    /\ subPc = "listen"
    /\ IF message.type = "pmessage"
       THEN LET data == json_loads(message.data) IN
            /\ upstream' = upstream + 1
            /\ IF data.ok
               THEN /\ putters' = Append(putters, data.value)
                    /\ handed' = Append(handed, data.value)
                    /\ UNCHANGED <<subPc, notify>>
               ELSE /\ subPc' = "raised"
                    /\ notify' = notify \cup {"subscribe"}
                    /\ UNCHANGED <<putters, handed>>
       ELSE UNCHANGED <<upstream, putters, handed, subPc, notify>>
    /\ UNCHANGED <<clientVars, outbox, broken, pass, pubPc, taken, errorLog, exitStatus>>

\* Mutant: the type of the message is not looked at: every message is decoded.
Listen_DecodeAll(message) ==
    /\ exitStatus = Running
    /\ emitted' = <<>> /\ fanout' = NoFanOut /\ trail' = NoTrail
    /\ skipped' = (message.type # "pmessage")
    /\ subPc = "listen"
    /\ LET data == json_loads(message.data) IN
       /\ upstream' = upstream + 1
       /\ IF data.ok
          THEN /\ putters' = Append(putters, data.value)
               /\ handed' = Append(handed, data.value)
               /\ subPc' = "put"
               /\ UNCHANGED notify
          ELSE /\ subPc' = "raised"
               /\ notify' = notify \cup {"subscribe"}
               /\ UNCHANGED <<putters, handed>>
    /\ UNCHANGED <<clientVars, outbox, broken, pass, pubPc, taken, errorLog, exitStatus>>

\* One pass of `for message in pubsub.listen()`: a non-pmessage is skipped,
\* a pmessage is decoded (ValueError kills the greenlet) and put on the
\* channel, where the greenlet blocks until the item is taken.
Listen(message) ==
    /\ exitStatus = Running
    /\ emitted' = <<>> /\ fanout' = NoFanOut /\ trail' = NoTrail
    /\ skipped' = (message.type # "pmessage")
    /\ subPc = "listen"
    /\ IF message.type = "pmessage"
       THEN LET data == json_loads(message.data) IN
            /\ upstream' = upstream + 1
            /\ IF data.ok
               THEN /\ putters' = Append(putters, data.value)
                    /\ handed' = Append(handed, data.value)
                    /\ subPc' = "put"
                    /\ UNCHANGED notify
               ELSE /\ subPc' = "raised"
                    /\ notify' = notify \cup {"subscribe"}
                    /\ UNCHANGED <<putters, handed>>
       ELSE UNCHANGED <<upstream, putters, handed, subPc, notify>>
    /\ UNCHANGED <<clientVars, outbox, broken, pass, pubPc, taken, errorLog, exitStatus>>

\* pubsub.listen() raises: the connection to Redis is lost.
UpstreamFail ==
    /\ exitStatus = Running
    /\ Quiet
    /\ subPc = "listen"
    /\ subPc' = "raised"
    /\ notify' = notify \cup {"subscribe"}
    /\ UNCHANGED <<clientVars, outbox, broken, pass, putters, pubPc, upstream, handed, taken,
                   errorLog, exitStatus>>

\* pubsub.listen() is exhausted: the for loop ends and subscribe() returns.
UpstreamEnd ==
    /\ exitStatus = Running
    /\ Quiet
    /\ subPc = "listen"
    /\ subPc' = "returned"
    /\ UNCHANGED <<clientVars, outbox, broken, pass, putters, pubPc, upstream, handed, taken,
                   exitVars>>

\* ------------------------------------------------------ publish greenlet
\* Mutant: the first item is read but left in the channel, and is taken again.
Publish_Requeue ==
    /\ exitStatus = Running
    /\ emitted' = <<>> /\ trail' = NoTrail /\ skipped' = FALSE
    /\ pubPc = "get"
    /\ putters # <<>>
    /\ LET change == Head(putters) IN
       /\ putters' = IF taken = <<>> THEN putters ELSE Tail(putters)
       /\ taken' = Append(taken, change)
       /\ subPc' = IF subPc = "put" THEN "listen" ELSE subPc
       /\ IF ~HasKey(change, "server_name")
          THEN /\ pubPc' = "raised"
               /\ notify' = notify \cup {"publish"}
               /\ UNCHANGED outbox
               /\ fanout' = NoFanOut
          ELSE \E clients \in Orders(sockets) :
                  LET r == FanOut(clients, change, outbox, [tested |-> {}, matched |-> {}]) IN
                  /\ outbox' = r.out
                  /\ fanout' = [tested |-> r.seen.tested, matched |-> r.seen.matched,
                                 raised |-> r.raised]
                  /\ pubPc' = IF r.raised THEN "raised" ELSE "get"
                  /\ notify' = IF r.raised THEN notify \cup {"publish"} ELSE notify
    /\ UNCHANGED <<clientVars, broken, pass, upstream, handed, errorLog, exitStatus>>

\* One pass of `for change in self.queue`: the blocked put is taken, the
\* putter is released, and the change is sent to the interested sockets.
\* A missing server_name or a failing send kills the greenlet.
Publish ==
    /\ exitStatus = Running
    /\ emitted' = <<>> /\ trail' = NoTrail /\ skipped' = FALSE
    /\ pubPc = "get"
    /\ putters # <<>>
    /\ LET change == Head(putters) IN
       /\ putters' = Tail(putters)
       /\ taken' = Append(taken, change)
       /\ subPc' = IF subPc = "put" THEN "listen" ELSE subPc
       /\ IF ~HasKey(change, "server_name")
          THEN /\ pubPc' = "raised"
               /\ notify' = notify \cup {"publish"}
               /\ UNCHANGED outbox
               /\ fanout' = NoFanOut
          ELSE \E clients \in Orders(sockets) :
                  LET r == FanOut(clients, change, outbox, [tested |-> {}, matched |-> {}]) IN
                  /\ outbox' = r.out
                  /\ fanout' = [tested |-> r.seen.tested, matched |-> r.seen.matched,
                                 raised |-> r.raised]
                  /\ pubPc' = IF r.raised THEN "raised" ELSE "get"
                  /\ notify' = IF r.raised THEN notify \cup {"publish"} ELSE notify
    /\ UNCHANGED <<clientVars, broken, pass, upstream, handed, errorLog, exitStatus>>

\* The same pass in steps, for a send_packet that yields to other greenlets:
\* the change is taken and self.sockets.values() is listed; the putter is
\* released when the publish greenlet first yields.
PublishTake ==
    /\ exitStatus = Running
    /\ Quiet
    /\ pubPc = "get"
    /\ putters # <<>>
    /\ LET change == Head(putters) IN
       /\ putters' = Tail(putters)
       /\ taken' = Append(taken, change)
       /\ subPc' = IF subPc = "put" THEN "listen" ELSE subPc
       /\ IF ~HasKey(change, "server_name")
          THEN /\ pubPc' = "raised"
               /\ notify' = notify \cup {"publish"}
               /\ UNCHANGED pass
          ELSE /\ pubPc' = "fanout"
               /\ pass' = [change |-> change, snapshot |-> sockets, tested |-> {}]
               /\ UNCHANGED notify
    /\ UNCHANGED <<clientVars, outbox, broken, upstream, handed, errorLog, exitStatus>>

\* Mutant: the interest test is made for the first socket reached, and its
\* outcome is used for the sockets reached after it.
PublishSend_TestOnce(client) ==
    /\ exitStatus = Running
    /\ Quiet
    /\ pubPc = "fanout"
    /\ client \in Pending(pass)
    /\ pass' = [pass EXCEPT !.tested = @ \cup {client}]
    /\ IF /\ client \in sockets
          /\ IF pass.tested = {}
             THEN Interested(Subscriptions(client), pass.change.v["server_name"])
             ELSE \E c \in pass.tested :
                     /\ outbox[c] # <<>>
                     /\ outbox[c][Len(outbox[c])] = Event(pass.change)
       THEN IF client \in broken
            THEN /\ pubPc' = "raised"
                 /\ notify' = notify \cup {"publish"}
                 /\ UNCHANGED outbox
            ELSE /\ outbox' = [outbox EXCEPT ![client] = Append(@, Event(pass.change))]
                 /\ UNCHANGED <<pubPc, notify>>
       ELSE UNCHANGED <<outbox, pubPc, notify>>
    /\ UNCHANGED <<clientVars, broken, putters, subPc, upstream, handed, taken,
                   errorLog, exitStatus>>

\* The loop reaches one listed socket: its session is tested and, if
\* interested, it is sent the event.  A socket that has left the registry
\* since is closed: what is sent to it goes nowhere.
PublishSend(client) ==
    /\ exitStatus = Running
    /\ Quiet
    /\ pubPc = "fanout"
    /\ client \in Pending(pass)
    /\ pass' = [pass EXCEPT !.tested = @ \cup {client}]
    /\ IF /\ client \in sockets
          /\ Interested(Subscriptions(client), pass.change.v["server_name"])
       THEN IF client \in broken
            THEN /\ pubPc' = "raised"
                 /\ notify' = notify \cup {"publish"}
                 /\ UNCHANGED outbox
            ELSE /\ outbox' = [outbox EXCEPT ![client] = Append(@, Event(pass.change))]
                 /\ UNCHANGED <<pubPc, notify>>
       ELSE UNCHANGED <<outbox, pubPc, notify>>
    /\ UNCHANGED <<clientVars, broken, putters, subPc, upstream, handed, taken,
                   errorLog, exitStatus>>

\* The list is exhausted: the loop goes back to self.queue.
PublishNext ==
    /\ exitStatus = Running
    /\ Quiet
    /\ pubPc = "fanout"
    /\ Pending(pass) = {}
    /\ pubPc' = "get"
    /\ pass' = NoPass
    /\ UNCHANGED <<clientVars, outbox, broken, putters, subPc, upstream, handed, taken,
                   exitVars>>

\* ------------------------------------------------------------- on_error
\* Mutant: the exception is logged and the process goes on.
on_error_LogOnly(greenlet) ==
    /\ exitStatus = Running
    /\ Quiet
    /\ greenlet \in notify
    /\ notify' = notify \ {greenlet}
    /\ errorLog' = errorLog \cup {greenlet}
    /\ UNCHANGED <<clientVars, outbox, broken, pass, loopVars, exitStatus>>

\* The link_exception callback of a greenlet that died with an exception:
\* it logs the exception and sys.exit(1) ends the process, and with it the
\* sockets, their sessions and the channel.
on_error(greenlet) ==
    /\ exitStatus = Running
    /\ Quiet
    /\ greenlet \in notify
    /\ notify' = notify \ {greenlet}
    /\ errorLog' = errorLog \cup {greenlet}
    /\ exitStatus' = <<1>>
    /\ sockets' = {} /\ inited' = {} /\ broken' = {} /\ pass' = NoPass
    /\ wikis' = [s \in SessionIds |-> {}]
    /\ environ' = [s \in SessionIds |-> NoEnviron]
    /\ outbox' = [s \in SessionIds |-> <<>>]
    /\ putters' = <<>>
    /\ UNCHANGED <<pubPc, subPc, upstream, handed, taken>>

\* ------------------------------------------------------ specifications
Greenlets == {"publish", "subscribe"}

Startup ==
    \/ ServeForever
    \/ PublishStart
    \/ SubscribeStart

Clients ==
    \/ \E s \in SessionIds : Connect(s)
    \/ \E s \in SessionIds : Initialize(s)
    \/ \E s \in SessionIds : Disconnect(s)

Lifecycle ==
    \/ Startup
    \/ Clients
    \/ Publish
    \/ \E g \in Greenlets : on_error(g)

Commands(args) ==
    \/ \E s \in SessionIds, i \in DOMAIN args : on_subscribe(s, args[i])
    \/ \E s \in SessionIds, i \in DOMAIN args : on_unsubscribe(s, args[i])

\* pubsub.listen() yields a message, while fewer than max pmessages have come.
Feed(max) ==
    /\ upstream < max
    /\ \E message \in UpstreamMessages(upstream + 1) : Listen(message)

Next == Lifecycle \/ Commands(Args) \/ Feed(MaxUpstream)

Spec == Init /\ [][Next]_vars

\* The subscription cap: commands that fill a session to MAX_SUBSCRIPTIONS.
CapNext == Lifecycle \/ Commands(CapArgs) \/ Feed(CapUpstream)

CapSpec == Init /\ [][CapNext]_vars

\* The command handlers alone, on arguments of every kind, with no upstream
\* traffic.
HandlerNext == Startup \/ Clients \/ Commands(HandlerArgs)

HandlerSpec == Init /\ [][HandlerNext]_vars

\* A send_packet that yields: the publish pass runs in steps, and sockets
\* connect, disconnect and send commands while it is under way.
SnapshotNext ==
    \/ Startup
    \/ Clients
    \/ Commands(Args)
    \/ Feed(CapUpstream)
    \/ PublishTake
    \/ \E s \in SessionIds : PublishSend(s)
    \/ PublishNext
    \/ \E g \in Greenlets : on_error(g)

SnapshotSpec == Init /\ [][SnapshotNext]_vars

\* The audit log: connections with every kind of environ, and the packets
\* as process_packet receives them.
Packets ==
    \E s \in SessionIds, name \in PacketNames, i \in DOMAIN Args :
        process_packet(s, [name |-> name, args |-> Args[i]])

AuditClients ==
    \/ \E s \in SessionIds : ConnectAny(s)
    \/ \E s \in SessionIds : Initialize(s)
    \/ \E s \in SessionIds : Disconnect(s)

AuditNext == Startup \/ AuditClients \/ Packets

AuditSpec == Init /\ [][AuditNext]_vars

\* Failing transports: send_packet may raise.
DeliveryNext == Next \/ \E s \in SessionIds : TransportBreak(s)

DeliverySpec == Init /\ [][DeliveryNext]_vars

\* The upstream connection may fail or end; on_error runs once scheduled.
StreamNext == Lifecycle \/ Feed(MaxUpstream) \/ UpstreamFail \/ UpstreamEnd

FairSpec == Init /\ [][StreamNext]_vars /\ \A g \in Greenlets : WF_vars(on_error(g))

\* The same, with the hub running a publish greenlet whose get() has an item.
HandoffSpec ==
    /\ Init /\ [][StreamNext]_vars
    /\ WF_vars(Publish)
    /\ \A g \in Greenlets : WF_vars(on_error(g))

\* =====================================================================
\* Properties
\* =====================================================================

\* The string topics a command argument names.
Topics(arg) ==
    IF arg.t = "list" THEN {arg.v[i].v : i \in {j \in DOMAIN arg.v : arg.v[j].t = "str"}}
    ELSE IF arg.t = "str" THEN {arg.v}
    ELSE {}

\* The elements of a command argument, in order.
Elements(arg) == IF arg.t = "list" THEN arg.v ELSE <<arg>>

\* S with the string topics of list[1..k] added.
Added(S, list, k) == S \cup {list[i].v : i \in {j \in 1..k : list[j].t = "str"}}

\* list[k] is a new string topic that finds the set holding 100 topics, all
\* earlier elements having been applied.  (A set of |S| topics cannot hold
\* 100 before element 100 - |S| + 1, and S is part of Added(S, list, k - 1):
\* the first and the third conjunct only save work.)
Overflows(S, list, k) ==
    /\ Cardinality(S) + (k - 1) >= 100
    /\ list[k].t = "str"
    /\ list[k].v \notin S
    /\ list[k].v \notin Added(S, list, k - 1)
    /\ Cardinality(Added(S, list, k - 1)) >= 100

FirstOverflow(S, list) ==
    {k \in DOMAIN list : Overflows(S, list, k) /\ \A j \in 1..(k - 1) : ~Overflows(S, list, j)}

\* C1: every session's subscription set holds at most 100 topics, in every
\* reachable state.
C1_AtMostMaxSubscriptions == \A s \in SessionIds : Cardinality(wikis[s]) <= 100

C1_Witness_FullSet == \E s \in inited : Cardinality(wikis[s]) = 100

\* C2: a subscribe batch is applied in input order and stops at the first new
\* string topic that finds 100 topics in the set: the caller alone gets one
\* subscribe_error, nothing later is added, what was added before stays.
C2_BatchStopsAtCapacity ==
    [][\A s \in SessionIds, i \in DOMAIN HandlerArgs :
          on_subscribe(s, HandlerArgs[i])
          => LET list == Elements(HandlerArgs[i])
                 stop == FirstOverflow(wikis[s], list)
             IN  /\ \A c \in SessionIds \ {s} : wikis'[c] = wikis[c]
                 /\ outbox' = outbox
                 /\ IF stop = {}
                    THEN /\ wikis'[s] = Added(wikis[s], list, Len(list))
                         /\ emitted' = <<>>
                    ELSE \E k \in stop :
                            /\ wikis'[s] = Added(wikis[s], list, k - 1)
                            /\ emitted' = <<s>>]_vars

\* 99 topics, then subscribe([7,"a","b"]): 100 topics with "a", without "b",
\* and one subscribe_error.
C2_Witness_PartialBatch ==
    \E s \in inited :
        /\ emitted = <<s>>
        /\ Cardinality(wikis[s]) = 100
        /\ "a" \in wikis[s] /\ "b" \notin wikis[s]

\* C3: subscribe is idempotent: after any subscribe command, the same command
\* again leaves the set as it is; a command whose topics are all in the set
\* does not change it.
C3_SubscribeIdempotent ==
    [][\A s \in SessionIds, i \in DOMAIN HandlerArgs :
          on_subscribe(s, HandlerArgs[i])
          => /\ Subscribe(wikis'[s], HandlerArgs[i]).subs = wikis'[s]
             /\ Topics(HandlerArgs[i]) \subseteq wikis[s] => wikis'[s] = wikis[s]]_vars

\* Subscribe commands have run without overflow: "a" and "b" are both in the
\* session's set, and the latest step emitted no subscribe_error.
C3_Witness_Subscribed ==
    \E s \in inited :
        /\ emitted = <<>>
        /\ {"a", "b"} \subseteq wikis[s]

\* C4: unsubscribe sends no error and removes exactly the string topics it
\* names: the set becomes S minus those topics, other sessions are untouched.
C4_UnsubscribeRemovesExactly ==
    [][\A s \in SessionIds, i \in DOMAIN HandlerArgs :
          on_unsubscribe(s, HandlerArgs[i])
          => /\ wikis'[s] = wikis[s] \ Topics(HandlerArgs[i])
             /\ \A c \in SessionIds \ {s} : wikis'[c] = wikis[c]
             /\ emitted' = <<>>
             /\ outbox' = outbox]_vars

\* A session holds "b" without "a": the lists add "a" before "b", so
\* unsubscribe("a") has removed "a" and kept "b", which it did not name.
C4_Witness_Unsubscribed ==
    \E s \in inited : "b" \in wikis[s] /\ "a" \notin wikis[s]

\* The item the publish loop took in this step, when it took one.
TookOne == Len(taken') = Len(taken) + 1
Took == taken'[Len(taken')]

\* The item is a change with a topic.
HasTopic(item) == item.t = "dict" /\ "server_name" \in DOMAIN item.v
TopicOf(item) == item.v["server_name"]

\* The change packet that carries the item.
ChangePacket(item) ==
    [type |-> "event", name |-> "change", endpoint |-> "/rc", args |-> <<item.v>>]

\* The session's set holds "*" or the topic.
Wants(s, topic) == s \in inited /\ ("*" \in wikis[s] \/ topic \in wikis[s])

\* C5: when the publish loop processes an event with topic t, the event is sent
\* to every registered session whose set holds "*" or t.
C5_InterestedAreSent ==
    [][(TookOne /\ HasTopic(Took))
          => \A s \in sockets :
                Wants(s, TopicOf(Took)) => outbox'[s] = Append(outbox[s], ChangePacket(Took))]_vars

\* One session on "enwiki", one on "*": the enwiki event went to both, and the
\* frwiki event, just processed, to the wildcard session alone.
C5_Witness_WildcardAndTopic ==
    \E s1, s2 \in inited :
        /\ wikis[s1] = {"enwiki"} /\ wikis[s2] = {"*"}
        /\ Len(outbox[s1]) = 1 /\ Len(outbox[s2]) = 2
        /\ outbox[s1][1] = outbox[s2][1]
        /\ outbox[s1][1].args[1]["server_name"] = "enwiki"
        /\ outbox[s2][2].args[1]["server_name"] = "frwiki"
        /\ fanout.tested = {s1, s2} /\ fanout.matched = {s2}

\* C6: a change event is sent to a session only by a publish pass that finds
\* "*" or the event's topic in the session's set; a session whose set is empty
\* or missing is sent nothing.
C6_OnlyInterestedAreSent ==
    [][\A s \in SessionIds :
          Len(outbox'[s]) > Len(outbox[s])
          => /\ TookOne /\ HasTopic(Took)
             /\ s \in sockets
             /\ Wants(s, TopicOf(Took))
             /\ outbox'[s] = Append(outbox[s], ChangePacket(Took))]_vars

\* A publish pass has just tested a socket without 'wikis' and a socket with
\* an empty set, sent them nothing, and sent the event to another socket.
C6_Witness_EmptySetSkipped ==
    /\ fanout.matched # {}
    /\ \E s \in SessionIds :
          /\ s \in fanout.tested
          /\ s \notin fanout.matched
          /\ s \in sockets /\ (s \notin inited \/ wikis[s] = {})
          /\ outbox[s] = <<>>

\* The place of a sent packet's change in the hand-off order.
HandedAt(packet) == CHOOSE k \in DOMAIN handed : handed[k].v = packet.args[1]

\* C7: the events sent to a session are sent in the order in which they were
\* handed to the channel.
C7_PerSessionOrder ==
    \A s \in SessionIds : \A i, j \in DOMAIN outbox[s] :
        i < j => /\ \E k \in DOMAIN handed : handed[k].v = outbox[s][i].args[1]
                 /\ \E k \in DOMAIN handed : handed[k].v = outbox[s][j].args[1]
                 /\ HandedAt(outbox[s][i]) < HandedAt(outbox[s][j])

\* A session on "enwiki" has been sent two enwiki events.
C7_Witness_TwoEvents ==
    \E s \in inited :
        /\ wikis[s] = {"enwiki"}
        /\ Len(outbox[s]) = 2
        /\ outbox[s][1].args[1]["server_name"] = "enwiki"
        /\ outbox[s][2].args[1]["server_name"] = "enwiki"
        /\ outbox[s][1] # outbox[s][2]

\* C8: a send that fails for one session keeps the event from no other
\* interested session, and the publish loop goes on to the next event.
C8_DeliveryFailureIsolated ==
    [][(TookOne /\ HasTopic(Took))
          => /\ \A s \in sockets \ broken :
                   Wants(s, TopicOf(Took))
                   => outbox'[s] = Append(outbox[s], ChangePacket(Took))
             /\ pubPc' = "get"]_vars

\* The malformed change messages: not decodable, or without a topic.
Malformed == {[type |-> "pmessage", data |-> d] : d \in {BadPayload, NoTopicPayload}}

\* C9: a malformed change message is dropped: nothing is put on the channel,
\* the subscribe loop goes on listening and no greenlet dies of it.
C9_MalformedDropped ==
    [][\A message \in Malformed :
          Listen(message)
          => /\ handed' = handed /\ putters' = putters
             /\ subPc' = "listen"
             /\ notify' = notify]_vars

Ended(state) == pubPc = state \/ subPc = state

\* C10, as stated: whenever a background task has ended, by an error or by
\* returning, the process has exited or its on_error callback is about to run.
C10_EndedTaskExits ==
    (Ended("raised") \/ Ended("returned")) => (exitStatus # Running \/ notify # {})

\* C10, amended: a background task that raises leads to on_error logging the
\* exception and the process exiting with status 1.
C10_RaisedTaskExits ==
    Ended("raised") ~> (exitStatus = <<1>> /\ errorLog # {})

\* The subscribe greenlet died, on_error logged it and the process exited.
C10_Witness_Exited ==
    /\ subPc = "raised"
    /\ "subscribe" \in errorLog
    /\ exitStatus = <<1>>

FirstValue(str) ==
    LET commas == {k \in DOMAIN str : str[k] = ","}
        end == IF commas = {} THEN Len(str)
               ELSE (CHOOSE k \in commas : \A c \in commas : k <= c) - 1
    IN  SubSeq(str, 1, end)

\* The peer address of the raw connection.
PeerAddress(extra) == extra["REMOTE_ADDR"]

\* C12: the address in the audit line of a packet is the first value of the
\* forwarding header when the request has one, else the peer address of the
\* connection.
C12_LoggedOrigin ==
    trail.sid \in SessionIds
    => LET extra == environ[trail.sid] IN
       /\ trail.line.ok
       /\ trail.line.client_ip =
              IF "HTTP_X_FORWARDED_FOR" \in DOMAIN extra
              THEN FirstValue(extra["HTTP_X_FORWARDED_FOR"])
              ELSE PeerAddress(extra)

\* The element is a string topic that is not in the set.
IsNewTopic(S, x) == x.t = "str" /\ x.v \notin S

\* C13: in a subscribe batch an element that is no string, or is in the set
\* already, is skipped without error and without ending the batch, also when
\* the set holds 100 topics; subscribe_error is emitted only when a new string
\* topic meets a full set, and at most once per command.
C13_SkipsRaiseNoError ==
    [][\A s \in SessionIds, i \in DOMAIN HandlerArgs :
          on_subscribe(s, HandlerArgs[i])
          => LET list == Elements(HandlerArgs[i])
                 S == wikis[s]
                 new == {k \in DOMAIN list : IsNewTopic(S, list[k])}
             IN  /\ Len(emitted') <= 1
                 /\ new = {} => (emitted' = <<>> /\ wikis'[s] = S)
                 /\ (new # {} /\ Cardinality(S) = 100)
                       => (emitted' = <<s>> /\ wikis'[s] = S)
                 /\ emitted' # <<>>
                       => /\ Cardinality(wikis'[s]) = 100
                          /\ \E k \in DOMAIN list : IsNewTopic(wikis'[s], list[k])]_vars

\* A full set with "b" and without "a": a subscribe command on it skipped
\* what was no new topic and emitted its one error at "a".
C13_Witness_ErrorAtFullSet ==
    \E s \in inited :
        /\ Cardinality(wikis[s]) = 100
        /\ "b" \in wikis[s] /\ "a" \notin wikis[s]
        /\ emitted = <<s>>

\* C14: the publish loop walks a point-in-time list of the registry: sockets
\* that connect or disconnect during a pass do not end it, and the sockets
\* tested in the pass are exactly those registered when the list was made
\* (as long as the process runs).
C14_SnapshotIteration ==
    /\ [][(pubPc = "get" /\ pubPc' = "fanout")
             => (pass'.snapshot = sockets /\ pass'.tested = {})]_vars
    /\ [][(pubPc = "fanout" /\ exitStatus' = Running)
             => /\ pubPc' \in {"fanout", "get"}
                /\ pass'.tested \subseteq pass.snapshot
                /\ pubPc' = "fanout" => pass'.snapshot = pass.snapshot
                /\ pubPc' = "get" => pass.tested = pass.snapshot]_vars

\* A pass has tested the sockets it listed, among them one that has left
\* since, and no other, though another socket has connected meanwhile.
C14_Witness_ChurnDuringPass ==
    /\ pubPc = "fanout"
    /\ pass.snapshot # {} /\ pass.tested = pass.snapshot
    /\ pass.snapshot \ sockets # {}
    /\ sockets \ pass.snapshot # {}


\* A loop has died with an exception, or the process has exited.
LoopFailed == Ended("raised") \/ exitStatus # Running

\* C15: what the dispatch loop has taken is at every moment an initial part
\* of what the ingestion loop has handed off, in hand-off order (nothing
\* dropped, duplicated or reordered), what is handed and not yet taken is
\* still in the channel, and under fair scheduling the k-th event handed off
\* is eventually taken for dispatch unless a loop has failed.
C15_HandoffExactlyOnceInOrder ==
    /\ [](/\ Len(taken) <= Len(handed)
          /\ taken = SubSeq(handed, 1, Len(taken)))
    /\ [](exitStatus = Running
            => putters = SubSeq(handed, Len(taken) + 1, Len(handed)))
    /\ \A k \in 1..MaxUpstream :
          (Len(handed) >= k) ~> (Len(taken) >= k \/ LoopFailed)

\* Two different events were handed off and both were taken, in order, with
\* both loops alive.
C15_Witness_TwoTakenInOrder ==
    /\ exitStatus = Running /\ ~LoopFailed
    /\ Len(handed) = 2 /\ taken = handed
    /\ handed[1] # handed[2]
    /\ pubPc = "get" /\ subPc = "listen"


\* The messages listen() yields that are not change notifications.
ControlMessages == {m \in UpstreamMessages(1) : m.type # "pmessage"}

\* C16: a pass of the ingestion loop over a message whose type is not
\* "pmessage" decodes nothing and puts nothing on the channel (the count of
\* decoded messages, the channel and the hand-off history are unchanged, no
\* exception is raised), and the loop is back in listen() for the next message.
C16_ControlMessageSkipped ==
    [][\A m \in ControlMessages :
          Listen(m) => /\ UNCHANGED <<upstream, putters, handed, taken, notify>>
                       /\ subPc' = "listen"
                       /\ skipped']_vars

\* A control message was skipped after a change had been handed off and
\* taken, and the ingestion loop is in listen() again.
C16_Witness_SkippedAfterChange ==
    /\ skipped
    /\ exitStatus = Running
    /\ subPc = "listen"
    /\ Len(handed) = 1 /\ taken = handed


\* The positions of a trail at which the handler acted.
After(steps, what) == {k \in 2..Len(steps) : steps[k] = what}

\* C17: a step changes the set of a live session, or sends it a
\* subscribe_error, only in a process_packet call that leaves an audit
\* record for that session; and the record of every packet, of whatever
\* name, is written as the first thing the call does: it carries the packet,
\* and a write of the session's set or a subscribe_error made by the
\* packet's handler comes after it in the call.
C17_LoggedBeforeHandled ==
    /\ [][\A s \in inited \cap inited' :
             (wikis'[s] # wikis[s] \/ \E k \in DOMAIN emitted' : emitted'[k] = s)
             => trail'.sid = s]_vars
    /\ [][\A s \in SessionIds, name \in PacketNames, i \in DOMAIN Args :
             LET packet == [name |-> name, args |-> Args[i]] IN
             (trail'.sid = s /\ process_packet(s, packet))
             => /\ trail'.line.msg = json_dumps(packet)
                /\ trail'.steps # <<>> /\ Head(trail'.steps) = "log"
                /\ After(trail'.steps, "log") = {}
                /\ wikis'[s] # wikis[s] => After(trail'.steps, "write") # {}
                /\ emitted' # <<>> => After(trail'.steps, "emit") # {}]_vars

\* A subscribe packet was logged and then added "*" to the session's set.
C17_Witness_LoggedThenWritten ==
    \E s \in inited :
        /\ trail.sid = s
        /\ trail.steps = <<"log", "write">>
        /\ trail.line.msg[8] = "subscribe"
        /\ "*" \in wikis[s]


\* C18: while a session lives, a step that changes its subscription set is a
\* subscribe or unsubscribe command of that session: it is no step of the
\* dispatch loop or of the ingestion loop, and it changes the set of no
\* other session.
C18_OwnCommandsOnly ==
    [][\A s \in inited \cap inited' :
          wikis'[s] # wikis[s]
          => /\ \E i \in DOMAIN Args : \/ on_subscribe(s, Args[i])
                                       \/ on_unsubscribe(s, Args[i])
             /\ UNCHANGED <<loopVars, outbox>>
             /\ \A t \in SessionIds \ {s} : wikis'[t] = wikis[t]]_vars

\* Two live sessions hold different sets, each from its own command, after
\* the dispatch loop has sent a change to one of them.
C18_Witness_SetsApart ==
    /\ inited = SessionIds
    /\ wikis[1] = {"*"} /\ wikis[2] = {"enwiki"}
    /\ taken # <<>>
    /\ outbox[1] # <<>>


\* The publish pass reaches socket s in this step.
Reached(s) == pubPc = "fanout" /\ s \in pass'.tested \ pass.tested

\* C19: a session is sent a change only in the step in which the publish pass
\* reaches it, and only if its set, as it is in that step, holds "*" or the
\* topic; no command of the session changes the set in that step.  A session
\* reached when its set holds neither (the topic was unsubscribed and not
\* subscribed again) is sent nothing, whatever the set was when the change
\* arrived; a registered session reached when its set holds one of them is
\* sent the change.
C19_TestedWhenReached ==
    [][\A s \in SessionIds :
          LET topic == pass.change.v["server_name"] IN
          /\ Len(outbox'[s]) > Len(outbox[s])
             => /\ Reached(s) /\ Wants(s, topic)
                /\ wikis'[s] = wikis[s] /\ s \in inited'
                /\ outbox'[s] = Append(outbox[s], Event(pass.change))
          /\ (Reached(s) /\ ~Wants(s, topic)) => outbox'[s] = outbox[s]
          /\ (Reached(s) /\ Wants(s, topic) /\ s \in sockets \ broken)
             => Len(outbox'[s]) = Len(outbox[s]) + 1]_vars

\* In mid-pass: one session was sent the enwiki change and has unsubscribed
\* since; another was reached with an empty set, was sent nothing, and has
\* subscribed since.
C19_Witness_CommandsInMidPass ==
    /\ pubPc = "fanout"
    /\ pass.change.v["server_name"] = "enwiki"
    /\ \E s1, s2 \in inited \cap pass.tested :
          /\ Len(outbox[s1]) = 1 /\ wikis[s1] = {}
          /\ outbox[s2] = <<>> /\ wikis[s2] = {"enwiki"}


\* C20: the channel has no buffer: at most one item is pending on it; a put
\* completes only in a step in which the publish loop takes the item put; and
\* listen() yields the next pmessage to the ingestion loop only when the
\* publish loop, its fan-out of the previous event done, is back in get()
\* with nothing pending.
C20_RendezvousHandoff ==
    [][/\ Len(putters') <= 1
       /\ (subPc = "put" /\ subPc' # "put") => (TookOne /\ Took = Head(putters))
       /\ upstream' # upstream
          => (pubPc = "get" /\ putters = <<>> /\ handed = taken)]_vars

====
